---- MODULE Spec2Model ----
(***************************************************************************)
(* ESPnetNLUModel (espnet2/nlu/espnet_model.py): the orchestration object  *)
(* that wires frontend, pre-encoder, encoder, post-encoder, token decoder  *)
(* and attention decoder, selects the branches by token_loss_weight and    *)
(* blends their losses.                                                    *)
(*                                                                         *)
(* A 2-D token tensor is a sequence of rows, a 1-D length tensor a         *)
(* sequence of integers.  The pluggable sub-modules are uninterpreted: the *)
(* value a module returns is its argument with the module's name appended  *)
(* to the field "by".  token_loss_weight is the integer w standing for     *)
(* w / WScale, and a blended loss is kept in units of 1 / WScale, so that  *)
(* the arithmetic of forward is exact.                                     *)
(***************************************************************************)
EXTENDS Integers, Sequences, FiniteSets, TLC

VARIABLES
    ctor,            \* the arguments __init__ was called with (token_decoder, token_loss_weight)
    self,            \* the attributes __init__ sets
    pc,              \* the position of the running method
    method,          \* the method running: "none", "forward", "collect_feats", "encode"
    args,            \* the tensors the method was called with
    text,            \* forward's local text (truncated, line 157)
    src_text,        \* forward's local src_text (truncated, line 158)
    batch_size,      \* forward's local batch_size (line 154)
    feats,           \* (feats, feats_lengths) in encode / collect_feats
    encoder_out,     \* (encoder_out, encoder_out_lens)
    loss,            \* forward's local loss: [tensor |-> is it a tensor, val |-> value]
    stats,           \* forward's local stats dict
    acc,             \* forward's locals acc_nlu_token / acc_nlu_att (Unbound before assignment)
    cover,           \* the targets and the positions the criterion / th_accuracy count, per branch
    calls,           \* the sub-module invocations so far, in order: [mod, arg]
    pdb,             \* TRUE once pdb.set_trace() was entered in this call
    ret              \* the outcome of the call: [kind, val]

vars == <<ctor, self, pc, method, args, text, src_text, batch_size, feats,
          encoder_out, loss, stats, acc, cover, calls, pdb, ret>>

----------------------------------------------------------------------------
(* Bounds of the model and program constants *)

\* token_loss_weight w stands for w / WScale
WScale == 2
\* a branch loss is drawn from 0..MaxLoss
MaxLoss == 2
\* a branch accuracy is drawn from 0..MaxAcc
MaxAcc == 1
\* batch sizes 1..MaxBatch and sequence lengths 1..MaxLen of the batches
MaxBatch == 2
MaxLen == 2
\* batch sizes and lengths of the batches that exercise the length check of line 160
MaxBpBatch == 3
MaxBpLen == 3
\* ignore_id: int = -1
IgnoreId == -1
\* vocabulary sizes the model is constructed with (real tokens are 0..vocab_size-2)
VocabSizes == {2, 3}

None == "None"
Unbound == -1

----------------------------------------------------------------------------
(* Tensor helpers *)

Max(S) == CHOOSE x \in S : \A y \in S : y <= x

Min2(a, b) == IF a < b THEN a ELSE b

Range(s) == {s[i] : i \in DOMAIN s}

RECURSIVE Sum(_)
Sum(s) == IF s = <<>> THEN 0 ELSE s[1] + Sum(Tail(s))

\* t[:, :n]
Trunc(t, n) == [i \in DOMAIN t |-> SubSeq(t[i], 1, Min2(n, Len(t[i])))]

\* y[y != v]
Strip(row, v) == SelectSeq(row, LAMBDA x : x # v)

Fill(n, v) == [k \in 1..n |-> v]

\* pad_list(xs, v): rows padded with v to the longest row
PadList(xs, v) ==
    LET W == Max({Len(xs[i]) : i \in DOMAIN xs})
    IN  [i \in DOMAIN xs |-> xs[i] \o Fill(W - Len(xs[i]), v)]

\* add_sos_eos(ys_pad, sos, eos, ignore_id): the padding is parsed away, sos is
\* prepended / eos appended, and the rows are padded again, with eos and ignore_id
AddSosEos(ys_pad, sos, eos, ignore_id) ==
    LET ys == [i \in DOMAIN ys_pad |-> Strip(ys_pad[i], ignore_id)]
    IN  [ys_in  |-> PadList([i \in DOMAIN ys |-> <<sos>> \o ys[i]], eos),
         ys_out |-> PadList([i \in DOMAIN ys |-> ys[i] \o <<eos>>], ignore_id)]

\* the target positions LabelSmoothingLoss(padding_idx) sums over
CriterionPositions(target, padding_idx) ==
    {p \in {<<i, j>> : i \in DOMAIN target, j \in 1..Len(target[1])} :
        target[p[1]][p[2]] # padding_idx}

\* the target positions th_accuracy(ignore_label) counts
AccuracyPositions(target, ignore_label) ==
    {p \in {<<i, j>> : i \in DOMAIN target, j \in 1..Len(target[1])} :
        target[p[1]][p[2]] # ignore_label}

----------------------------------------------------------------------------
(* Values *)

NoTensor == <<>>
NoPair == [data |-> NoTensor, lens |-> <<>>, by |-> <<>>]
NoArgs == [text |-> NoTensor, text_lengths |-> <<>>, text_lengths_dim |-> 1,
           src_text |-> NoTensor, src_text_lengths |-> <<>>, src_text_lengths_dim |-> 1]
NoLoss == [tensor |-> FALSE, val |-> 0]
NoAcc == [token |-> Unbound, att |-> Unbound]
NoBranchCover == [ran |-> FALSE, target |-> NoTensor, loss |-> {}, acc |-> {}]
NoCover == [token |-> NoBranchCover, att |-> NoBranchCover]
EmptyDict == [k \in {} |-> 0]
NoRet == [kind |-> "none", val |-> EmptyDict]

\* the value module m returns for argument x
Module(m, x) == [x EXCEPT !.by = Append(@, m)]

----------------------------------------------------------------------------
(* __init__ *)

\* the token branch also enabled at weight 0
TokenDecoderAttr_Mut(w, token_decoder) == IF w >= 0 THEN token_decoder ELSE None

\* lines 101-110: self.token_decoder
TokenDecoderAttr(w, token_decoder) == IF w > 0 THEN token_decoder ELSE None

\* lines 112-121: self.decoder
DecoderAttr(w, decoder) == IF w < WScale THEN decoder ELSE None

Construct(vocab_size, frontend, preencoder, postencoder, token_decoder, w, extract) ==
    [sos |-> vocab_size - 1,
     eos |-> vocab_size - 1,
     vocab_size |-> vocab_size,
     ignore_id |-> IgnoreId,
     token_loss_weight |-> w,
     frontend |-> frontend,
     preencoder |-> preencoder,
     postencoder |-> postencoder,
     encoder |-> "encoder",
     token_decoder |-> TokenDecoderAttr(w, token_decoder),
     decoder |-> DecoderAttr(w, "decoder"),
     extract_feats_in_collect_stats |-> extract]

Idle ==
    /\ pc = "idle"
    /\ method = "none"
    /\ args = NoArgs
    /\ text = NoTensor
    /\ src_text = NoTensor
    /\ batch_size = 0
    /\ feats = NoPair
    /\ encoder_out = NoPair
    /\ loss = NoLoss
    /\ stats = EmptyDict
    /\ acc = NoAcc
    /\ cover = NoCover
    /\ calls = <<>>
    /\ pdb = FALSE
    /\ ret = NoRet

\* the state after construction, the constructor's arguments drawn from the given sets
InitWith(Ws, TDs, FEs, PREs, POSTs, EXs, VSs) ==
    /\ \E w \in Ws, td \in TDs, fe \in FEs, pre \in PREs, post \in POSTs,
          ex \in EXs, vs \in VSs :
          /\ ctor = [token_decoder |-> td, token_loss_weight |-> w]
          /\ self = Construct(vs, fe, pre, post, td, w, ex)
    /\ Idle

----------------------------------------------------------------------------
(* Batches *)

\* the sequences of tokens toks of length 1..maxlen
Seqs(toks, maxlen) == UNION {[1..n -> toks] : n \in 1..maxlen}

\* a padded tensor of width W and its lengths, from the sequences ss
Side(ss, W) ==
    [pad  |-> [i \in DOMAIN ss |-> ss[i] \o Fill(W - Len(ss[i]), IgnoreId)],
     lens |-> [i \in DOMAIN ss |-> Len(ss[i])]]

Sides(maxB, toks, maxlen, Ws) ==
    UNION {UNION {{Side(ss, W) : ss \in [1..B -> Seqs(toks, Min2(W, maxlen))]}
                  : W \in Ws} : B \in 1..maxB}

\* B sequences <<0>>
UnitSide(B) == Side([i \in 1..B |-> <<0>>], 1)

MkBatch(t, s) ==
    [text |-> t.pad, text_lengths |-> t.lens, text_lengths_dim |-> 1,
     src_text |-> s.pad, src_text_lengths |-> s.lens, src_text_lengths_dim |-> 1]

\* batches whose source side varies, the text side being unit sequences
SrcBatches(SS) == {MkBatch(UnitSide(Len(s.lens)), s) : s \in SS}

\* batches whose text side varies, the source side being unit sequences
TextBatches(TS) == {MkBatch(t, UnitSide(Len(t.lens))) : t \in TS}

\* b with one tensor of another batch size, or text_lengths of two dimensions
Malformed(b) ==
    {[b EXCEPT !.text_lengths_dim = 2],
     [b EXCEPT !.text = Append(@, @[1])],
     [b EXCEPT !.text_lengths = Append(@, @[1])],
     [b EXCEPT !.src_text = Append(@, @[1])],
     [b EXCEPT !.src_text_lengths = Append(@, @[1])]}

\* b with src_text_lengths of two dimensions
MalformedSrc(b) == {[b EXCEPT !.src_text_lengths_dim = 2]}

\* every token of the batch is a real token of the vocabulary
TokensOK(b, vocab_size) ==
    \A t \in {b.text, b.src_text} : \A i \in DOMAIN t :
        \A x \in Range(t[i]) : x = IgnoreId \/ x \in 0..(vocab_size - 2)

\* the batches of BS over the vocabulary
Valid(BS, vocab_size) == {b \in BS : TokensOK(b, vocab_size)}

\* all-zero sequences of every length combination, full width
LenSides(maxB, maxlen) == Sides(maxB, {0}, maxlen, {maxlen})

\* sequences over the tokens {0, 1}, every width
TokSides(maxB, maxlen) == Sides(maxB, {0, 1}, maxlen, 1..maxlen)

\* source sequences of every combination of lengths
PlainBatches(vs) == Valid(SrcBatches(LenSides(MaxBatch, MaxLen)), vs)

PipelineBatches(vs) == PlainBatches(vs) \cup UNION {Malformed(b) : b \in PlainBatches(vs)}

PipelineSrcBatches(vs) ==
    PlainBatches(vs) \cup UNION {MalformedSrc(b) : b \in PlainBatches(vs)}

FeatsBatches(vs) ==
    Valid(SrcBatches(TokSides(MaxBatch, MaxLen)), vs)
        \cup UNION {MalformedSrc(b) : b \in PlainBatches(vs)}

LossBatches(vs) == Valid(TextBatches(TokSides(MaxBatch, MaxLen)), vs) \cup PlainBatches(vs)

BreakpointBatches(vs) == Valid(SrcBatches(LenSides(MaxBpBatch, MaxBpLen)), vs)

\* the batches of a kind, for a model of vocabulary size vs
Batches(kind, vs) ==
    CASE kind = "plain" -> PlainBatches(vs)
      [] kind = "pipeline" -> PipelineBatches(vs)
      [] kind = "pipeline_src" -> PipelineSrcBatches(vs)
      [] kind = "feats" -> FeatsBatches(vs)
      [] kind = "loss" -> LossBatches(vs)
      [] kind = "breakpoint" -> BreakpointBatches(vs)

----------------------------------------------------------------------------
(* forward, lines 128-194 *)

\* the batch size of src_text_lengths left out of the comparison
ForwardAssertsHold_Mut(a) ==
    /\ a.text_lengths_dim = 1
    /\ Len(a.text) = Len(a.text_lengths)
    /\ Len(a.text_lengths) = Len(a.src_text)

\* lines 145-152: the two assertions on the shapes
ForwardAssertsHold(a) ==
    /\ a.text_lengths_dim = 1
    /\ Len(a.text) = Len(a.text_lengths)
    /\ Len(a.text_lengths) = Len(a.src_text)
    /\ Len(a.src_text) = Len(a.src_text_lengths)

\* line 160: src_text_lengths.sum() / len(src_text_lengths) != src_text_lengths[0]
\* (true division; on these integers it is sum # len * first)
LengthCheck(lens) == Sum(lens) # Len(lens) * lens[1]

\* line 176: loss_nlu_token * self.token_loss_weight
TokenLossTerm(loss_nlu_token, w) == loss_nlu_token * w

\* the attention loss weighted like the token loss
AttLossTerm_Mut(loss_nlu_att, w) == loss_nlu_att * w

\* line 186: loss_nlu_att * (1. - self.token_loss_weight)
AttLossTerm(loss_nlu_att, w) == loss_nlu_att * (WScale - w)

\* the token accuracy preferred over the attention accuracy
StatsAcc_Mut(s, a) == IF s.token_decoder # None THEN a.token ELSE a.att

\* line 190: acc_nlu_att if self.decoder is not None else acc_nlu_token
StatsAcc(s, a) == IF s.decoder # None THEN a.att ELSE a.token

\* lines 292-297: the criterion's padding_idx (line 105) and th_accuracy's ignore_label
TokenCriterionPaddingIdx(s) == s.ignore_id
TokenAccIgnoreLabel(s) == s.sos

\* lines 317-322: the criterion's padding_idx (line 116) and th_accuracy's ignore_label
AttCriterionPaddingIdx(s) == s.ignore_id
AttAccIgnoreLabel(s) == s.ignore_id

Raise(e) ==
    /\ ret' = [kind |-> e, val |-> EmptyDict]
    /\ pc' = "done"

CallForward(FB) ==
    /\ pc = "idle"
    /\ \E b \in Batches(FB, self.vocab_size) : args' = b
    /\ method' = "forward"
    /\ pc' = "forward"
    /\ UNCHANGED <<ctor, self, text, src_text, batch_size, feats, encoder_out,
                   loss, stats, acc, cover, calls, pdb, ret>>

\* lines 145-161: the assertions, batch_size, the truncations, the length check
ForwardEntry ==
    /\ pc = "forward"
    /\ IF ~ForwardAssertsHold(args)
       THEN /\ Raise("AssertionError")
            /\ UNCHANGED <<text, src_text, batch_size, pdb>>
       ELSE /\ batch_size' = Len(args.src_text)
            /\ text' = Trunc(args.text, Max(Range(args.text_lengths)))
            /\ src_text' = Trunc(args.src_text, Max(Range(args.src_text_lengths)))
            /\ pdb' = LengthCheck(args.src_text_lengths)
            /\ pc' = IF LengthCheck(args.src_text_lengths) THEN "pdb" ELSE "extract_feats"
            /\ ret' = ret
    /\ UNCHANGED <<ctor, self, method, args, feats, encoder_out, loss, stats,
                   acc, cover, calls>>

\* line 161: the debugger's prompt is left with "continue"
PdbContinue ==
    /\ pc = "pdb"
    /\ pc' = "extract_feats"
    /\ UNCHANGED <<ctor, self, method, args, text, src_text, batch_size, feats,
                   encoder_out, loss, stats, acc, cover, calls, pdb, ret>>

\* lines 169-176 with _calc_nlu_token_loss, lines 279-299
TokenBranch(LV, AV) ==
    /\ pc = "token_branch"
    /\ IF self.token_decoder # None
       THEN \E loss_nlu_token \in LV, acc_nlu_token \in AV :
              LET ys == AddSosEos(text, self.sos, self.eos, self.ignore_id) IN
              /\ calls' = Append(calls, [mod |-> self.token_decoder, arg |-> encoder_out])
              /\ cover' = [cover EXCEPT !.token =
                              [ran |-> TRUE,
                               target |-> ys.ys_in,
                               loss |-> CriterionPositions(ys.ys_in, TokenCriterionPaddingIdx(self)),
                               acc |-> AccuracyPositions(ys.ys_in, TokenAccIgnoreLabel(self))]]
              /\ stats' = ("token_loss" :> loss_nlu_token) @@ ("token_acc" :> acc_nlu_token) @@ stats
              /\ acc' = [acc EXCEPT !.token = acc_nlu_token]
              /\ loss' = [tensor |-> TRUE,
                          val |-> loss.val + TokenLossTerm(loss_nlu_token, self.token_loss_weight)]
       ELSE UNCHANGED <<calls, cover, stats, acc, loss>>
    /\ pc' = "att_branch"
    /\ UNCHANGED <<ctor, self, method, args, text, src_text, batch_size, feats,
                   encoder_out, pdb, ret>>

\* lines 179-186 with _calc_nlu_att_loss, lines 301-324
AttBranch(LV, AV) ==
    /\ pc = "att_branch"
    /\ IF self.decoder # None
       THEN \E loss_nlu_att \in LV, acc_nlu_att \in AV :
              LET ys == AddSosEos(text, self.sos, self.eos, self.ignore_id) IN
              /\ calls' = Append(calls, [mod |-> self.decoder, arg |-> encoder_out])
              /\ cover' = [cover EXCEPT !.att =
                              [ran |-> TRUE,
                               target |-> ys.ys_out,
                               loss |-> CriterionPositions(ys.ys_out, AttCriterionPaddingIdx(self)),
                               acc |-> AccuracyPositions(ys.ys_out, AttAccIgnoreLabel(self))]]
              /\ stats' = ("att_loss" :> loss_nlu_att) @@ ("att_acc" :> acc_nlu_att) @@ stats
              /\ acc' = [acc EXCEPT !.att = acc_nlu_att]
              /\ loss' = [tensor |-> TRUE,
                          val |-> loss.val + AttLossTerm(loss_nlu_att, self.token_loss_weight)]
       ELSE UNCHANGED <<calls, cover, stats, acc, loss>>
    /\ pc' = "finish"
    /\ UNCHANGED <<ctor, self, method, args, text, src_text, batch_size, feats,
                   encoder_out, pdb, ret>>

\* lines 189-194: loss is still the int 0 when no branch ran, and 0 has no detach()
ForwardFinish ==
    /\ pc = "finish"
    /\ IF ~loss.tensor
       THEN /\ Raise("AttributeError")
            /\ stats' = stats
       ELSE /\ stats' = ("loss" :> loss.val) @@ ("acc" :> StatsAcc(self, acc)) @@ stats
            /\ ret' = [kind |-> "returned",
                       val |-> [loss |-> loss.val, stats |-> stats', weight |-> batch_size]]
            /\ pc' = "done"
    /\ UNCHANGED <<ctor, self, method, args, text, src_text, batch_size, feats,
                   encoder_out, loss, acc, cover, calls, pdb>>

----------------------------------------------------------------------------
(* _extract_feats, lines 259-277 *)

\* the lengths not incremented for the sos
SosInput_Mut(s, st, sl) ==
    [data |-> AddSosEos(Trunc(st, Max(Range(sl))), s.sos, s.eos, s.ignore_id).ys_in,
     lens |-> sl,
     by   |-> <<>>]

\* lines 265-267: truncation, add_sos_eos, lengths + 1
SosInput(s, st, sl) ==
    [data |-> AddSosEos(Trunc(st, Max(Range(sl))), s.sos, s.eos, s.ignore_id).ys_in,
     lens |-> [i \in DOMAIN sl |-> sl[i] + 1],
     by   |-> <<>>]

\* lines 269-277
ExtractFeats(s, st, sl) ==
    IF s.frontend # None THEN Module(s.frontend, SosInput(s, st, sl))
                         ELSE SosInput(s, st, sl)

ExtractFeatsCalls(s, st, sl) ==
    IF s.frontend # None THEN <<[mod |-> s.frontend, arg |-> SosInput(s, st, sl)]>>
                         ELSE <<>>

\* where the caller of _extract_feats goes on
AfterExtractFeats(m) == IF m = "collect_feats" THEN "collect_return" ELSE "preencoder"

ExtractFeatsStep ==
    /\ pc = "extract_feats"
    /\ LET st == IF method = "forward" THEN src_text ELSE args.src_text
           sl == args.src_text_lengths
       IN  IF args.src_text_lengths_dim # 1
           THEN /\ Raise("AssertionError")
                /\ UNCHANGED <<feats, calls>>
           ELSE /\ feats' = ExtractFeats(self, st, sl)
                /\ calls' = calls \o ExtractFeatsCalls(self, st, sl)
                /\ pc' = AfterExtractFeats(method)
                /\ ret' = ret
    /\ UNCHANGED <<ctor, self, method, args, text, src_text, batch_size,
                   encoder_out, loss, stats, acc, cover, pdb>>

----------------------------------------------------------------------------
(* collect_feats, lines 196-214 *)

\* the features extracted whatever the flag says
CollectFeatsExtracts_Mut(s) == TRUE

\* line 204
CollectFeatsExtracts(s) == s.extract_feats_in_collect_stats

CallCollectFeats(CB) ==
    /\ pc = "idle"
    /\ \E b \in Batches(CB, self.vocab_size) : args' = b
    /\ method' = "collect_feats"
    /\ pc' = "collect_feats"
    /\ UNCHANGED <<ctor, self, text, src_text, batch_size, feats, encoder_out,
                   loss, stats, acc, cover, calls, pdb, ret>>

\* lines 204-213
CollectFeats ==
    /\ pc = "collect_feats"
    /\ IF CollectFeatsExtracts(self)
       THEN /\ pc' = "extract_feats"
            /\ feats' = feats
       ELSE /\ feats' = [data |-> args.src_text, lens |-> args.src_text_lengths, by |-> <<>>]
            /\ pc' = "collect_return"
    /\ UNCHANGED <<ctor, self, method, args, text, src_text, batch_size,
                   encoder_out, loss, stats, acc, cover, calls, pdb, ret>>

\* line 214
CollectFeatsReturn ==
    /\ pc = "collect_return"
    /\ ret' = [kind |-> "returned",
               val |-> [feats |-> [x |-> feats.data, by |-> feats.by],
                        feats_lengths |-> [x |-> feats.lens, by |-> feats.by]]]
    /\ pc' = "done"
    /\ UNCHANGED <<ctor, self, method, args, text, src_text, batch_size, feats,
                   encoder_out, loss, stats, acc, cover, calls, pdb>>

----------------------------------------------------------------------------
(* encode, lines 216-257 *)

\* line 234
PreEncoderOf(s) == s.preencoder

\* the pre-encoder applied again in place of the post-encoder
PostEncoderOf_Mut(s) == s.preencoder

\* line 243
PostEncoderOf(s) == s.postencoder

CallEncode(EB) ==
    /\ pc = "idle"
    /\ \E b \in Batches(EB, self.vocab_size) : args' = b
    /\ method' = "encode"
    /\ pc' = "extract_feats"
    /\ UNCHANGED <<ctor, self, text, src_text, batch_size, feats, encoder_out,
                   loss, stats, acc, cover, calls, pdb, ret>>

\* lines 234-235
PreEncoderStep ==
    /\ pc = "preencoder"
    /\ IF PreEncoderOf(self) # None
       THEN /\ feats' = Module(PreEncoderOf(self), feats)
            /\ calls' = Append(calls, [mod |-> PreEncoderOf(self), arg |-> feats])
       ELSE UNCHANGED <<feats, calls>>
    /\ pc' = "encoder"
    /\ UNCHANGED <<ctor, self, method, args, text, src_text, batch_size,
                   encoder_out, loss, stats, acc, cover, pdb, ret>>

\* line 240
EncoderStep ==
    /\ pc = "encoder"
    /\ encoder_out' = Module(self.encoder, feats)
    /\ calls' = Append(calls, [mod |-> self.encoder, arg |-> feats])
    /\ pc' = "postencoder"
    /\ UNCHANGED <<ctor, self, method, args, text, src_text, batch_size, feats,
                   loss, stats, acc, cover, pdb, ret>>

\* lines 243-257: the post-encoder, the assertion on the batch size, the return
\* (the sub-modules keep the batch size and the encoder's lengths cover its output)
PostEncoderStep ==
    /\ pc = "postencoder"
    /\ IF PostEncoderOf(self) # None
       THEN /\ encoder_out' = Module(PostEncoderOf(self), encoder_out)
            /\ calls' = Append(calls, [mod |-> PostEncoderOf(self), arg |-> encoder_out])
       ELSE UNCHANGED <<encoder_out, calls>>
    /\ IF Len(encoder_out'.data) # Len(args.src_text)
       THEN Raise("AssertionError")
       ELSE IF method = "encode"
            THEN /\ ret' = [kind |-> "returned",
                            val |-> [encoder_out |-> [x |-> encoder_out'.data, by |-> encoder_out'.by],
                                     encoder_out_lens |-> [x |-> encoder_out'.lens, by |-> encoder_out'.by]]]
                 /\ pc' = "done"
            ELSE /\ ret' = ret
                 /\ pc' = "token_branch"
    /\ UNCHANGED <<ctor, self, method, args, text, src_text, batch_size, feats,
                   loss, stats, acc, cover, pdb>>

----------------------------------------------------------------------------
(* The caller takes the outcome; the model object is ready for the next call *)

Return ==
    /\ pc = "done"
    /\ pc' = "idle"
    /\ method' = "none"
    /\ args' = NoArgs
    /\ text' = NoTensor
    /\ src_text' = NoTensor
    /\ batch_size' = 0
    /\ feats' = NoPair
    /\ encoder_out' = NoPair
    /\ loss' = NoLoss
    /\ stats' = EmptyDict
    /\ acc' = NoAcc
    /\ cover' = NoCover
    /\ calls' = <<>>
    /\ pdb' = FALSE
    /\ ret' = NoRet
    /\ UNCHANGED <<ctor, self>>

\* the methods called with batches of the kinds FB, CB and EB (of the model's
\* vocabulary), the decoders' losses in LV and accuracies in AV
NextWith(FB, CB, EB, LV, AV) ==
    \/ CallForward(FB)
    \/ ForwardEntry
    \/ PdbContinue
    \/ TokenBranch(LV, AV)
    \/ AttBranch(LV, AV)
    \/ ForwardFinish
    \/ ExtractFeatsStep
    \/ CallCollectFeats(CB)
    \/ CollectFeats
    \/ CollectFeatsReturn
    \/ CallEncode(EB)
    \/ PreEncoderStep
    \/ EncoderStep
    \/ PostEncoderStep
    \/ Return

----------------------------------------------------------------------------
(* Specifications *)

Weights == -1..(WScale + 1)
Losses == 0..MaxLoss
Accs == 0..MaxAcc

\* branch selection and loss blending: every weight, token_decoder given or None,
\* every loss and accuracy of the decoders
Init ==
    InitWith(Weights, {None, "token_decoder"}, {"frontend"}, {None}, {None},
             {TRUE}, {2})

Next == NextWith("plain", "plain", "plain", Losses, Accs)

Spec == Init /\ [][Next]_vars

\* the pipeline: every combination of frontend, pre-encoder and post-encoder,
\* well-formed and malformed batches
InitPipeline ==
    InitWith({0, 1, WScale}, {"token_decoder"}, {None, "frontend"},
             {None, "preencoder"}, {None, "postencoder"}, {TRUE}, {2})

NextPipeline ==
    NextWith("pipeline", "plain", "pipeline_src", {1}, {1})

SpecPipeline == InitPipeline /\ [][NextPipeline]_vars

\* feature extraction: source batches over the tokens, of every width
InitFeats ==
    InitWith({WScale}, {"token_decoder"}, {None, "frontend"}, {None}, {None},
             BOOLEAN, VocabSizes)

NextFeats == NextWith("plain", "feats", "feats", {1}, {1})

SpecFeats == InitFeats /\ [][NextFeats]_vars

\* the targets of the two branches: text batches over the tokens, of every width
InitLoss ==
    InitWith({0, 1, WScale}, {"token_decoder"}, {"frontend"}, {None}, {None},
             {TRUE}, VocabSizes)

NextLoss == NextWith("loss", "plain", "plain", {1}, {1})

SpecLoss == InitLoss /\ [][NextLoss]_vars

\* the length check of line 160: source lengths of larger batches
InitBreakpoint ==
    InitWith({0, 1, WScale}, {"token_decoder"}, {"frontend"}, {None}, {None},
             {TRUE}, {2})

NextBreakpoint == NextWith("breakpoint", "plain", "plain", {1}, {1})

SpecBreakpoint == InitBreakpoint /\ [][NextBreakpoint]_vars

----------------------------------------------------------------------------
(* Properties *)

ModsCalled == {calls[i].mod : i \in DOMAIN calls}
Decoders == {"token_decoder", "decoder"}
BranchesRun == ModsCalled \cap Decoders
BranchesEnabled == {self.token_decoder, self.decoder} \ {None}
TokenRan == "token_decoder" \in BranchesRun
AttRan == "decoder" \in BranchesRun

\* forward has passed both branch blocks (lines 169-186)
ForwardPastBranches ==
    /\ method = "forward"
    /\ \/ pc = "finish"
       \/ pc = "done" /\ ret.kind \in {"returned", "AttributeError"}

ForwardReturned == method = "forward" /\ ret.kind = "returned"

\* C1: constructed with weight w and a token_decoder that is not None, the
\* token branch is enabled iff w > 0 and the attention branch iff w < 1; forward
\* runs no branch that is not enabled and, once past the branch blocks, has run
\* exactly the enabled ones.
C1_BranchSelection ==
    /\ ctor.token_decoder # None =>
          /\ (self.token_decoder # None) <=> (ctor.token_loss_weight > 0)
          /\ (self.token_decoder # None) => self.token_decoder = ctor.token_decoder
          /\ (self.decoder # None) <=> (ctor.token_loss_weight < WScale)
    /\ BranchesRun \subseteq BranchesEnabled
    /\ ForwardPastBranches => BranchesRun = BranchesEnabled

C1_Witness ==
    /\ ForwardReturned
    /\ ctor.token_loss_weight > 0
    /\ ctor.token_loss_weight < WScale
    /\ BranchesRun = Decoders

\* C2: the loss forward returns is w * token_loss + (1 - w) * att_loss when both
\* branches ran, w * token_loss when only the token branch ran, (1 - w) * att_loss
\* when only the attention branch ran (in units of 1 / WScale).
C2_LossBlending ==
    ForwardReturned =>
        LET w == self.token_loss_weight
            s == ret.val.stats
        IN  CASE TokenRan /\ AttRan ->
                    ret.val.loss = w * s["token_loss"] + (WScale - w) * s["att_loss"]
              [] TokenRan /\ ~AttRan -> ret.val.loss = w * s["token_loss"]
              [] ~TokenRan /\ AttRan -> ret.val.loss = (WScale - w) * s["att_loss"]
              [] OTHER -> TRUE

C2_Witness ==
    /\ ForwardReturned
    /\ TokenRan /\ AttRan
    /\ ret.val.stats["token_loss"] = 1
    /\ ret.val.stats["att_loss"] = 2
    /\ ret.val.loss = self.token_loss_weight + 2 * (WScale - self.token_loss_weight)

\* C3: the stats forward returns hold 'loss' (the returned loss) and 'acc';
\* 'token_loss' and 'token_acc' iff the token branch ran, 'att_loss' and 'att_acc'
\* iff the attention branch ran; 'acc' is the attention accuracy whenever the
\* attention branch ran, and the token accuracy otherwise.
C3_Stats ==
    ForwardReturned =>
        LET s == ret.val.stats
        IN  /\ {"loss", "acc"} \subseteq DOMAIN s
            /\ s["loss"] = ret.val.loss
            /\ IF TokenRan THEN /\ {"token_loss", "token_acc"} \subseteq DOMAIN s
                                /\ s["token_acc"] = acc.token
                           ELSE {"token_loss", "token_acc"} \cap DOMAIN s = {}
            /\ IF AttRan THEN /\ {"att_loss", "att_acc"} \subseteq DOMAIN s
                              /\ s["att_acc"] = acc.att
                         ELSE {"att_loss", "att_acc"} \cap DOMAIN s = {}
            /\ DOMAIN s \subseteq {"loss", "acc", "token_loss", "token_acc", "att_loss", "att_acc"}
            /\ s["acc"] = IF AttRan THEN acc.att ELSE acc.token

C3_Witness ==
    /\ ForwardReturned
    /\ TokenRan /\ AttRan
    /\ acc.token = 1
    /\ acc.att = 0
    /\ ret.val.stats["acc"] = 0

\* C8: for every construction and every valid batch forward runs at least one
\* branch, so that the loss is a computed branch loss and stats['acc'] is defined.
C8_SomeBranchRuns ==
    ForwardPastBranches =>
        /\ BranchesRun # {}
        /\ loss.tensor
        /\ pc = "done" => /\ ret.kind = "returned"
                          /\ "acc" \in DOMAIN ret.val.stats

BatchSizes(a) == {Len(a.text), Len(a.text_lengths), Len(a.src_text), Len(a.src_text_lengths)}
WellFormed(a) == a.text_lengths_dim = 1 /\ Cardinality(BatchSizes(a)) = 1

\* C4: when text_lengths is not one-dimensional or the four batch sizes are not
\* all equal, forward ends with an assertion error and has invoked no sub-module;
\* otherwise it does not, and the weight it returns is the batch size of src_text.
C4_BatchContract ==
    method = "forward" =>
        /\ ~WellFormed(args) =>
              /\ calls = <<>>
              /\ pc # "forward" => pc = "done" /\ ret.kind = "AssertionError"
        /\ WellFormed(args) => ret.kind # "AssertionError"
        /\ ret.kind = "returned" => ret.val.weight = Len(args.src_text)

C4_Witness ==
    /\ method = "forward"
    /\ args.text_lengths_dim = 1
    /\ Len(args.src_text_lengths) # Len(args.src_text)
    /\ Len(args.text) = Len(args.src_text)
    /\ ret.kind = "AssertionError"
    /\ calls = <<>>

\* C5: collect_feats returns exactly 'feats' and 'feats_lengths'; with
\* extract_feats_in_collect_stats False they are src_text and src_text_lengths
\* unchanged and no sub-module is invoked, with True they are what _extract_feats
\* produces; nothing but the frontend is ever invoked.
C5_CollectFeats ==
    method = "collect_feats" =>
        /\ ModsCalled \subseteq {"frontend"}
        /\ ret.kind = "returned" =>
              /\ DOMAIN ret.val = {"feats", "feats_lengths"}
              /\ IF self.extract_feats_in_collect_stats
                 THEN LET e == ExtractFeats(self, args.src_text, args.src_text_lengths)
                      IN  /\ ret.val.feats = [x |-> e.data, by |-> e.by]
                          /\ ret.val.feats_lengths = [x |-> e.lens, by |-> e.by]
                 ELSE /\ ret.val.feats = [x |-> args.src_text, by |-> <<>>]
                      /\ ret.val.feats_lengths = [x |-> args.src_text_lengths, by |-> <<>>]
                      /\ calls = <<>>

C5_Witness ==
    /\ method = "collect_feats"
    /\ ret.kind = "returned"
    /\ ~self.extract_feats_in_collect_stats
    /\ self.frontend # None
    /\ IgnoreId \in Range(args.src_text[1])
    /\ ret.val.feats.x = args.src_text

\* _extract_feats has run in this call
Extracted ==
    /\ feats # NoPair
    /\ ~(method = "collect_feats" /\ ~self.extract_feats_in_collect_stats)

FrontendCalls == SelectSeq(calls, LAMBDA c : c.mod = "frontend")

\* C6: _extract_feats truncates src_text to the maximum source length, prepends
\* sos = vocab_size - 1 to every sequence and adds 1 to every length; a frontend
\* is invoked exactly once, on these values, and its output is the result; with
\* no frontend these values are the result.
C6_ExtractFeats ==
    Extracted =>
        LET st == args.src_text
            sl == args.src_text_lengths
        IN  /\ DOMAIN feats.data = DOMAIN st
            /\ DOMAIN feats.lens = DOMAIN sl
            /\ \A i \in DOMAIN st :
                  /\ Len(feats.data[i]) = Max(Range(sl)) + 1
                  /\ feats.data[i][1] = self.vocab_size - 1
                  /\ SubSeq(feats.data[i], 2, sl[i] + 1) = SubSeq(st[i], 1, sl[i])
                  /\ feats.lens[i] = sl[i] + 1
            /\ IF self.frontend # None
               THEN /\ FrontendCalls =
                          <<[mod |-> "frontend",
                             arg |-> [data |-> feats.data, lens |-> feats.lens, by |-> <<>>]]>>
                    /\ feats.by # <<>> /\ feats.by[1] = "frontend"
               ELSE /\ FrontendCalls = <<>>
                    /\ "frontend" \notin Range(feats.by)
            /\ pc \in {"preencoder", "collect_return"} =>
                  feats.by = IF self.frontend # None THEN <<"frontend">> ELSE <<>>

C6_Witness ==
    /\ method = "encode"
    /\ pc = "preencoder"
    /\ self.frontend # None
    /\ Len(args.src_text) = 2
    /\ Len(args.src_text[1]) > Max(Range(args.src_text_lengths))
    /\ Len(feats.data[1]) = 2
    /\ feats.lens = <<2, 2>>
    /\ Len(calls) = 1

\* the stages of encode that are present, in the order of lines 227-246
EncodeStages ==
    SelectSeq(<<self.frontend, self.preencoder, self.encoder, self.postencoder>>,
              LAMBDA m : m # None)

EncodeCalls == SelectSeq(calls, LAMBDA c : c.mod \notin Decoders)

EncodeCompleted ==
    \/ pc \in {"token_branch", "att_branch", "finish"}
    \/ pc = "done" /\ method = "forward" /\ ret.kind \in {"returned", "AttributeError"}
    \/ pc = "done" /\ method = "encode" /\ ret.kind = "returned"

\* C7: the calls of encode are, in this order, frontend, pre-encoder, encoder,
\* post-encoder, each at most once and each on the output of the one before
\* (the first on the sos-prepended source); a pre- or post-encoder that is None is
\* skipped; the encoder is called exactly once when encode completes; a decoder
\* is called only after encode has completed, on encode's output.
C7_StageOrdering ==
    /\ Len(EncodeCalls) <= Len(EncodeStages)
    /\ \A i \in DOMAIN EncodeCalls :
          /\ EncodeCalls[i].mod = EncodeStages[i]
          /\ EncodeCalls[i].arg.by = SubSeq(EncodeStages, 1, i - 1)
          /\ EncodeCalls[i].arg.data = feats.data
          /\ EncodeCalls[i].arg.lens = feats.lens
    /\ \A i \in DOMAIN calls :
          calls[i].mod \in Decoders =>
              /\ i > Len(EncodeStages)
              /\ SubSeq(calls, 1, Len(EncodeStages)) = EncodeCalls
              /\ calls[i].arg.by = EncodeStages
              /\ EncodeCompleted
    /\ EncodeCompleted =>
          /\ Len(EncodeCalls) = Len(EncodeStages)
          /\ Cardinality({i \in DOMAIN calls : calls[i].mod = "encoder"}) = 1
          /\ encoder_out.by = EncodeStages
          /\ encoder_out.data = feats.data
          /\ method = "encode" => ret.val.encoder_out.by = EncodeStages

C7_Witness ==
    /\ ForwardReturned
    /\ BranchesRun = Decoders
    /\ EncodeStages = <<"frontend", "preencoder", "encoder", "postencoder">>
    /\ Len(calls) = 6

\* C9: forward stops at the breakpoint of line 161, before encode, exactly on the
\* batches whose src_text_lengths are not all equal.
C9_BreakpointIffNonUniform ==
    (method = "forward" /\ pc # "forward" /\ ret.kind # "AssertionError") =>
        /\ pdb <=> Cardinality(Range(args.src_text_lengths)) > 1
        /\ pc = "pdb" => calls = <<>>

\* the positions of the target of row i that are padding: past its tokens and
\* the one sos / eos added to them
PaddingPositions(target) ==
    {p \in {<<i, j>> : i \in DOMAIN target, j \in 1..Len(target[1])} :
        p[2] > args.text_lengths[p[1]] + 1}

\* C10: in each branch the target positions that contribute to the loss are the
\* positions the accuracy counts, and none of them is a padding position.
C10_SamePositions ==
    \A b \in {"token", "att"} :
        cover[b].ran =>
            /\ cover[b].loss = cover[b].acc
            /\ cover[b].loss \cap PaddingPositions(cover[b].target) = {}
            /\ cover[b].acc \cap PaddingPositions(cover[b].target) = {}

====
